---- MODULE Spec2Model ----
(***************************************************************************)
(* A model of examples/tsunami/bowl-radial/setrun.py.                      *)
(*                                                                         *)
(* The program is a script: __main__ calls setrun(), which creates the run *)
(* configuration (rundata), has setgeo() fill rundata.geodata, fills       *)
(* rundata.clawdata itself, and returns; __main__ then calls               *)
(* rundata.write().  The model executes it one statement at a time: pc is  *)
(* the source line of the statement to run next (0 once the process has    *)
(* ended).                                                                 *)
(*                                                                         *)
(* Numbers.  Python floats are kept as integers in thousandths (100. is    *)
(* 100000, 3.4 is 3400, .001 is 1).  The three floats that do not fit      *)
(* TLC's 32-bit integers in thousandths (1.e10, 1e15, 1e+99) are kept as   *)
(* three distinct values above every other float of the script, in their   *)
(* order; the model only copies and compares them.  Python ints (levels,   *)
(* gauge numbers, counts, codes) are kept as they are.                     *)
(*                                                                         *)
(* The script is a template: its comments give the form of the lines a     *)
(* user appends or the values a user sets ("for gauges append lines of the *)
(* form [gaugeno, x, y, t1, t2]", "Required: len(mthlim) == mwaves").      *)
(* `edits` is the number of literals of the script that may still differ   *)
(* from the shipped ones: Spec runs the script as shipped (edits = 0),     *)
(* SpecEdit runs it with up to MaxEdits literals replaced.                 *)
(***************************************************************************)
EXTENDS Integers, Sequences, FiniteSets, TLC

VARIABLES
    pc,        \* source line of the next statement; 0: the process has ended
    edits,     \* literals of the script that may still be replaced
    argv,      \* sys.argv[1:]
    claw_pkg,  \* setrun's parameter
    rundata,   \* what data.ClawRunData(claw_pkg, ndim) returned
    clawdata,  \* rundata.clawdata: attribute name -> value
    geodata,   \* rundata.geodata: attribute name -> value
    locals,    \* local names of setrun and setgeo, and the two for-loop iterators
    exc,       \* the exception that ended the process, "none" if none
    out,       \* lines printed
    calls,     \* the calls that created, received or acted on rundata, in order
    written    \* the configuration rundata.write() was called on

vars == <<pc, edits, argv, claw_pkg, rundata, clawdata, geodata, locals, exc, out, calls, written>>

----------------------------------------------------------------------------
(* Bounds of the model *)

\* Literals of the script replaced in one edited run.
MaxEdits == 2

----------------------------------------------------------------------------
(* Floats beyond the integer range, in their order *)

F1e10 == 2000000000
F1e15 == 2000000001
F1e99 == 2000000002

----------------------------------------------------------------------------
(* Python helpers *)

NoAttrs == [a \in {} |-> 0]

Abs(n) == IF n < 0 THEN -n ELSE n

\* obj.attr = v, as it would be if the object refused a limiter list whose
\* length is not mwaves and a ratio list whose length is not |mxnest| - 1.
SetAttrChecked(obj, attr, v) ==
    IF \/ attr = "mthlim" /\ "mwaves" \in DOMAIN obj /\ Len(v) # obj["mwaves"]
       \/ /\ attr \in {"inratx", "inraty", "inratt"}
          /\ "mxnest" \in DOMAIN obj
          /\ Len(v) # Abs(obj["mxnest"]) - 1
    THEN obj
    ELSE IF attr \in DOMAIN obj THEN [obj EXCEPT ![attr] = v] ELSE obj @@ (attr :> v)

\* obj.attr = v on an object with no declared schema: the attribute is
\* created or overwritten, whatever v is.
SetAttr(obj, attr, v) ==
    IF attr \in DOMAIN obj THEN [obj EXCEPT ![attr] = v] ELSE obj @@ (attr :> v)

\* list.append(item), as it would be if a list kept one record per first
\* field (a gauge number) and dropped a second one.
ListAppendUnique(list, item) ==
    IF \E i \in DOMAIN list : list[i][1] = item[1] THEN list ELSE Append(list, item)

\* list.append(item), as it would be if the item went to the front.
ListPrepend(list, item) == <<item>> \o list

\* list.append(item)
ListAppend(list, item) == Append(list, item)

\* geodata.gauges.append(item): the same list.append
GaugeAppend(list, item) == Append(list, item)

\* -mxnest with the sign dropped
NegDropped(n) == n

\* -mxnest
Neg(n) == -n

\* str.lower(), on the strings the model passes
lower(s) == CASE s = "GeoClaw" -> "geoclaw" [] s = "GEOCLAW" -> "geoclaw" [] OTHER -> s

\* numpy.linspace(a, b, n)[i-1], a and b in thousandths
linspace(a, b, n, i) == a + ((i - 1) * (b - a)) \div (n - 1)

\* v / sqrt(2.), in thousandths: 1/sqrt(2) = 0.7071 to four places
DivSqrt2(v) == (v * 7071) \div 10000

----------------------------------------------------------------------------
(* The statements of the script *)

\* line -> the object assigned to ("c" clawdata, "g" geodata, "l" a local name),
\* the name, and the literal on the right-hand side.  Lines whose right-hand
\* side reads a name are in Computed below.
Literal ==
    [l \in {} |-> 0]
    @@ (30 :> <<"l", "ndim", 2>>)
    @@ (59 :> <<"c", "xlower", -100000>>)
    @@ (60 :> <<"c", "xupper", 100000>>)
    @@ (62 :> <<"c", "ylower", -100000>>)
    @@ (63 :> <<"c", "yupper", 100000>>)
    @@ (67 :> <<"c", "mx", 50>>)
    @@ (68 :> <<"c", "my", 50>>)
    @@ (76 :> <<"c", "meqn", 3>>)
    @@ (79 :> <<"c", "maux", 3>>)
    @@ (82 :> <<"c", "mcapa", 0>>)
    @@ (90 :> <<"c", "t0", 0>>)
    @@ (101 :> <<"c", "outstyle", 1>>)
    @@ (105 :> <<"c", "nout", 24>>)
    @@ (106 :> <<"c", "tfinal", 8000>>)
    @@ (110 :> <<"c", "tout", <<500, 1000>> >>)
    @@ (115 :> <<"l", "iout", 10>>)
    @@ (116 :> <<"l", "ntot", 100>>)
    @@ (128 :> <<"c", "verbosity", 2>>)
    @@ (138 :> <<"c", "dt_variable", 1>>)
    @@ (142 :> <<"c", "dt_initial", 16>>)
    @@ (145 :> <<"c", "dt_max", F1e99>>)
    @@ (149 :> <<"c", "cfl_desired", 900>>)
    @@ (150 :> <<"c", "cfl_max", 1000>>)
    @@ (153 :> <<"c", "max_steps", 5000>>)
    @@ (163 :> <<"c", "order", 2>>)
    @@ (166 :> <<"c", "order_trans", 2>>)
    @@ (169 :> <<"c", "mwaves", 3>>)
    @@ (173 :> <<"c", "mthlim", <<3, 3, 3>> >>)
    @@ (179 :> <<"c", "src_split", 1>>)
    @@ (187 :> <<"c", "mbc", 2>>)
    @@ (195 :> <<"c", "mthbc_xlower", 1>>)
    @@ (196 :> <<"c", "mthbc_xupper", 1>>)
    @@ (198 :> <<"c", "mthbc_ylower", 1>>)
    @@ (199 :> <<"c", "mthbc_yupper", 1>>)
    @@ (208 :> <<"l", "mxnest", 4>>)
    @@ (213 :> <<"c", "inratx", <<2, 4, 4>> >>)
    @@ (214 :> <<"c", "inraty", <<2, 4, 4>> >>)
    @@ (216 :> <<"c", "inratt", <<2, 4, 4>> >>)
    @@ (228 :> <<"c", "auxtype", <<"center", "center", "yleft">> >>)
    @@ (231 :> <<"c", "tol", -1000>>)
    @@ (232 :> <<"c", "tolsp", 500>>)
    @@ (235 :> <<"c", "kcheck", 3>>)
    @@ (236 :> <<"c", "ibuff", 2>>)
    @@ (261 :> <<"g", "variable_dt_refinement_ratios", TRUE>>)
    @@ (263 :> <<"g", "gravity", 9810>>)
    @@ (264 :> <<"g", "coordinate_system", 1>>)
    @@ (265 :> <<"g", "coriolis_force", FALSE>>)
    @@ (268 :> <<"g", "eta_init", 0>>)
    @@ (269 :> <<"g", "dry_tolerance", 1>>)
    @@ (270 :> <<"g", "wave_tolerance", 10>>)
    @@ (271 :> <<"g", "speed_tolerance", <<F1e15, F1e15, F1e15, F1e15, F1e15>> >>)
    @@ (272 :> <<"g", "deep_depth", 100000>>)
    @@ (273 :> <<"g", "max_level_deep", 3>>)
    @@ (274 :> <<"g", "friction_force", TRUE>>)
    @@ (275 :> <<"g", "manning_coefficient", 25>>)
    @@ (276 :> <<"g", "friction_depth", 20000>>)
    @@ (279 :> <<"g", "topofiles", <<>> >>)
    @@ (285 :> <<"g", "dtopofiles", <<>> >>)
    @@ (290 :> <<"g", "qinit_type", 4>>)
    @@ (291 :> <<"g", "qinitfiles", <<>> >>)
    @@ (297 :> <<"g", "regions", <<>> >>)
    @@ (308 :> <<"g", "gauges", <<>> >>)
    @@ (314 :> <<"l", "gaugeno", 0>>)
    @@ (318 :> <<"l", "y", 1>>)
    @@ (322 :> <<"l", "gaugeno", 100>>)
    @@ (331 :> <<"g", "fixedgrids", <<>> >>)
    @@ (337 :> <<"g", "num_layers", 1>>)
    @@ (338 :> <<"g", "rho", 1000>>)
    @@ (339 :> <<"g", "richardson_tolerance", 950>>)

\* line -> the list appended to and the record appended, for the appends of
\* a literal record.
AppendLiteral ==
    [l \in {} |-> 0]
    @@ (282 :> <<"topofiles", <<2, 1, 1, 0, F1e10, "bowl.topotype2">> >>)
    @@ (294 :> <<"qinitfiles", <<1, 2, "hump.xyz">> >>)
    @@ (300 :> <<"regions", <<1, 1, 0, F1e10, -100000, 100000, -100000, 100000>> >>)
    @@ (301 :> <<"regions", <<1, 2, 0, F1e10, 0, 100000, 0, 100000>> >>)
    @@ (302 :> <<"regions", <<2, 3, 3000, F1e10, 52000, 72000, 52000, 72000>> >>)
    @@ (303 :> <<"regions", <<2, 3, 3000, F1e10, 75000, 95000, -10000, 10000>> >>)
    @@ (304 :> <<"regions", <<2, 4, 3400, F1e10, 57000, 68000, 57000, 68000>> >>)
    @@ (305 :> <<"regions", <<2, 4, 3400, F1e10, 83000, 92000, -4000, 4000>> >>)
    @@ (334 :> <<"fixedgrids",
                 <<3000, 8000, 6, 52000, 72000, 52000, 72000, 100, 100, 0, 1>> >>)

\* The values a user may put in place of a literal, by line: the forms the
\* comments of the script give, with the requirements they state broken.
Alternatives ==
    [l \in {} |-> {}]
    @@ (101 :> {2, 3})
    @@ (169 :> {2})
    @@ (173 :> {<<3, 3>>, <<3, 3, 3, 3>>})
    @@ (208 :> {3})
    @@ (213 :> {<<2, 4>>, <<2, 4, 4, 4>>})
    @@ (214 :> {<<2, 4>>})
    @@ (216 :> {<<2, 4>>})
    @@ (301 :> {<<3, 1, 0, F1e10, 0, 100000, 0, 100000>>,
                <<1, 2, 0, F1e10, 100000, 0, 0, 100000>>,
                <<1, 2, 0, F1e10, 0, 100000, 50000, 50000>>})
    @@ (303 :> {<<4, 2, 3000, F1e10, 75000, 95000, -10000, 10000>>})
    @@ (322 :> {0, 5})

\* The statements in the order a run without branches or loops passes them.
Order ==
    <<350, 28, 30, 31, 37, 254,
      261, 263, 264, 265, 268, 269, 270, 271, 272, 273, 274, 275, 276,
      279, 282, 285, 290, 291, 294, 297, 300, 301, 302, 303, 304, 305,
      308, 314, 315, 316, 317, 318, 319, 322, 323, 324, 325, 326, 327,
      331, 334, 337, 338, 339, 341,
      56, 59, 60, 62, 63, 67, 68, 76, 79, 82, 90, 101, 103, 105, 106,
      110, 111, 115, 116, 117,
      128, 138, 142, 145, 149, 150, 153, 163, 166, 169, 173, 179, 187,
      195, 196, 198, 199, 208, 210, 213, 214, 216, 228, 231, 232, 235, 236,
      240, 355, 0>>

Index(line) == CHOOSE i \in DOMAIN Order : Order[i] = line

\* The statement after `line`: the next one, but for the ends of the two
\* loop bodies and of the branches of the if.
Succ(line) ==
    CASE line = 319 -> 315
      [] line = 327 -> 323
      [] line \in {106, 111} -> 128
      [] OTHER -> Order[Index(line) + 1]

\* TRUE once a run that has not raised has the statement at `line` behind it
\* (not meant for the lines of the two loop bodies).
Past(line) == exc = "none" /\ Index(pc) > Index(line)

\* line -> object, name and value of the assignments whose right-hand side
\* reads a name.
Computed(line) ==
    CASE line = 56 -> <<"c", "ndim", locals["ndim"]>>
      [] line = 111 -> <<"c", "nout", Len(clawdata["tout"])>>
      [] line = 117 -> <<"c", "iout", <<locals["iout"], locals["ntot"]>> >>
      [] line = 210 -> <<"c", "mxnest", Neg(locals["mxnest"])>>
      [] line = 316 -> <<"l", "gaugeno", locals["gaugeno"] + 1>>
      [] line = 317 -> <<"l", "x", locals["r"] + 1>>
      [] line = 324 -> <<"l", "gaugeno", locals["gaugeno"] + 1>>
      [] line = 325 -> <<"l", "x", DivSqrt2(locals["r"] + 1)>>
      [] line = 326 -> <<"l", "y", DivSqrt2(locals["r"] + 1)>>

ComputedLines == {56, 111, 117, 210, 316, 317, 324, 325, 326}

AssignLines == DOMAIN Literal \cup ComputedLines

Stmt(line) == IF line \in DOMAIN Literal THEN Literal[line] ELSE Computed(line)

\* line -> list and record of the appends of a record built from names.
GaugeLines == {319, 327}

AppendLines == DOMAIN AppendLiteral \cup GaugeLines

AppendStmt(line) ==
    IF line \in GaugeLines
    THEN <<"gauges", <<locals["gaugeno"], locals["x"], locals["y"], 0, F1e10>> >>
    ELSE AppendLiteral[line]

\* The values the statement at `line` may carry in this run: the shipped
\* one, or, while edits are left, one a user put in its place.
Values(line, shipped) ==
    {shipped} \cup (IF edits > 0 /\ line \in DOMAIN Alternatives
                    THEN Alternatives[line] ELSE {})

----------------------------------------------------------------------------
(* The run *)

\* sys.argv[1:] of the runs the model follows
Argv == {<<>>, <<"geoclaw">>, <<"GeoClaw">>, <<"classic">>, <<"geoclaw", "classic">>}

NotWritten == [called |-> FALSE, clawdata |-> NoAttrs, geodata |-> NoAttrs]

InitRun ==
    /\ pc = 350
    /\ argv \in Argv
    /\ claw_pkg = ""
    /\ rundata = {}
    /\ clawdata = NoAttrs
    /\ geodata = NoAttrs
    /\ locals = NoAttrs
    /\ exc = "none"
    /\ out = <<>>
    /\ calls = <<>>
    /\ written = NotWritten

\* The script as shipped.
Init == InitRun /\ edits = 0

\* The script with up to MaxEdits of its literals replaced.
InitEdit == InitRun /\ edits = MaxEdits

\* if len(sys.argv) == 2: setrun(sys.argv[1])  else: setrun()
Main ==
    /\ pc = 350
    /\ claw_pkg' = IF Len(argv) = 1 THEN argv[1] ELSE "geoclaw"
    /\ pc' = 28
    /\ UNCHANGED <<edits, argv, rundata, clawdata, geodata, locals, exc, out, calls, written>>

\* What the assert statement lets through.
AssertPassesAlways(pkg) == TRUE

AssertPasses(pkg) == lower(pkg) = "geoclaw"

\* assert claw_pkg.lower() == 'geoclaw'
AssertPkg ==
    /\ pc = 28
    /\ IF AssertPasses(claw_pkg)
       THEN pc' = Succ(28) /\ exc' = exc
       ELSE pc' = 0 /\ exc' = "AssertionError"
    /\ UNCHANGED <<edits, argv, claw_pkg, rundata, clawdata, geodata, locals, out, calls, written>>

\* rundata = data.ClawRunData(claw_pkg, ndim): clawdata is "initialized when
\* rundata instantiated"; whether the object has a geodata attribute is the
\* library's choice, which setgeo provides for.
Construct ==
    /\ pc = 31
    /\ \E hasGeodata \in BOOLEAN :
          rundata' = {"clawdata"} \cup (IF hasGeodata THEN {"geodata"} ELSE {})
    /\ clawdata' = NoAttrs
    /\ geodata' = NoAttrs
    /\ calls' = Append(calls, "ClawRunData")
    /\ pc' = Succ(31)
    /\ UNCHANGED <<edits, argv, claw_pkg, locals, exc, out, written>>

\* rundata = setgeo(rundata)
CallSetgeo ==
    /\ pc = 37
    /\ calls' = Append(calls, "setgeo")
    /\ pc' = Succ(37)
    /\ UNCHANGED <<edits, argv, claw_pkg, rundata, clawdata, geodata, locals, exc, out, written>>

\* try: geodata = rundata.geodata  except: print ...; raise AttributeError
SetgeoTry ==
    /\ pc = 254
    /\ IF "geodata" \in rundata
       THEN pc' = Succ(254) /\ UNCHANGED <<exc, out>>
       ELSE /\ out' = Append(out, "*** Error, this rundata has no geodata attribute")
            /\ exc' = "AttributeError"
            /\ pc' = 0
    /\ UNCHANGED <<edits, argv, claw_pkg, rundata, clawdata, geodata, locals, calls, written>>

\* name = value, clawdata.name = value, geodata.name = value
Assign ==
    /\ pc \in AssignLines
    /\ LET s == Stmt(pc) IN
       \E v \in Values(pc, s[3]) :
          /\ clawdata' = IF s[1] = "c" THEN SetAttr(clawdata, s[2], v) ELSE clawdata
          /\ geodata' = IF s[1] = "g" THEN SetAttr(geodata, s[2], v) ELSE geodata
          /\ locals' = IF s[1] = "l" THEN SetAttr(locals, s[2], v) ELSE locals
          /\ edits' = IF v = s[3] THEN edits ELSE edits - 1
    /\ pc' = Succ(pc)
    /\ UNCHANGED <<argv, claw_pkg, rundata, exc, out, calls, written>>

\* geodata.<list>.append(record)
AppendRecord ==
    /\ pc \in AppendLines
    /\ LET s == AppendStmt(pc) IN
       \E rec \in Values(pc, s[2]) :
          /\ geodata' = [geodata EXCEPT ![s[1]] =
                            IF pc \in GaugeLines THEN GaugeAppend(@, rec)
                            ELSE ListAppend(@, rec)]
          /\ edits' = IF rec = s[2] THEN edits ELSE edits - 1
    /\ pc' = Succ(pc)
    /\ UNCHANGED <<argv, claw_pkg, rundata, clawdata, locals, exc, out, calls, written>>

\* The name of the iterator of the for statement at `line`.
Iter(line) == IF line = 315 THEN "for315" ELSE "for323"

Taken(line) == IF Iter(line) \in DOMAIN locals THEN locals[Iter(line)] ELSE 0

\* for r in linspace(86., 93., 9):
For ==
    /\ pc \in {315, 323}
    /\ IF Taken(pc) < 9
       THEN /\ locals' = SetAttr(SetAttr(locals, Iter(pc), Taken(pc) + 1),
                                 "r", linspace(86000, 93000, 9, Taken(pc) + 1))
            /\ pc' = pc + 1
       ELSE /\ locals' = locals
            /\ pc' = IF pc = 315 THEN 322 ELSE 331
    /\ UNCHANGED <<edits, argv, claw_pkg, rundata, clawdata, geodata, exc, out, calls, written>>

\* if clawdata.outstyle==1: ... elif clawdata.outstyle == 2: ... elif ... == 3:
If ==
    /\ pc = 103
    /\ pc' = CASE clawdata["outstyle"] = 1 -> 105
               [] clawdata["outstyle"] = 2 -> 110
               [] clawdata["outstyle"] = 3 -> 115
               [] OTHER -> 128
    /\ UNCHANGED <<edits, argv, claw_pkg, rundata, clawdata, geodata, locals, exc, out, calls, written>>

\* return rundata, in setgeo and in setrun.  After setgeo returns,
\* clawdata = rundata.clawdata (line 44) names the object the model already
\* calls clawdata.
Return ==
    /\ pc \in {341, 240}
    /\ pc' = Succ(pc)
    /\ UNCHANGED <<edits, argv, claw_pkg, rundata, clawdata, geodata, locals, exc, out, calls, written>>

\* rundata.write(): "write all data files" from the values set in setrun.
\* The files themselves are the library's; the model keeps the
\* configuration write() was called on.
Write ==
    /\ pc = 355
    /\ written' = [called |-> TRUE, clawdata |-> clawdata, geodata |-> geodata]
    /\ calls' = Append(calls, "write")
    /\ pc' = 0
    /\ UNCHANGED <<edits, argv, claw_pkg, rundata, clawdata, geodata, locals, exc, out>>

Next ==
    \/ Main
    \/ AssertPkg
    \/ Construct
    \/ CallSetgeo
    \/ SetgeoTry
    \/ Assign
    \/ AppendRecord
    \/ For
    \/ If
    \/ Return
    \/ Write

Spec == Init /\ [][Next]_vars

SpecEdit == InitEdit /\ [][Next]_vars

----------------------------------------------------------------------------
(* What the claims speak of *)

\* The values the statement at `line` carries in some run, shipped or edited.
AllValues(line) ==
    {(IF line \in DOMAIN Literal THEN Literal[line] ELSE AppendLiteral[line])
         [IF line \in DOMAIN Literal THEN 3 ELSE 2]}
    \cup (IF line \in DOMAIN Alternatives THEN Alternatives[line] ELSE {})

\* rundata.write() is about to be called or has been called.
AtWrite == pc = 355 \/ written.called

Has(obj, attr) == attr \in DOMAIN obj

\* A Region [minlevel,maxlevel,t1,t2,x1,x2,y1,y2] whose fields are in order.
ValidRegion(r) == r[1] <= r[2] /\ r[5] < r[6] /\ r[7] < r[8]

\* The ordering constraint of the records of a list: levels in order, and
\* for a region the box as well.
ValidRecord(list, r) ==
    CASE list = "regions" -> ValidRegion(r)
      [] list = "topofiles" -> r[2] <= r[3]
      [] list = "qinitfiles" -> r[1] <= r[2]
      [] OTHER -> TRUE

\* Two records of the list carry the same gauge number.
DuplicateIds(gauges) ==
    \E i, j \in DOMAIN gauges : i < j /\ gauges[i][1] = gauges[j][1]

\* The list after the step is the list before it with one record added at
\* the end.
GrewByOne(before, after) ==
    /\ Len(after) = Len(before) + 1
    /\ SubSeq(after, 1, Len(before)) = before

\* Every attribute but `attr` is what it was.
OthersKept(before, after, attr) ==
    /\ DOMAIN before \subseteq DOMAIN after
    /\ \A a \in DOMAIN before \ {attr} : after[a] = before[a]

----------------------------------------------------------------------------
(* C1 *)

\* C1, as stated: write() emits the file set only when validate() has been
\* run on the configuration before it.
C1_WriteOnlyAfterValidate ==
    written.called =>
        \E i, j \in DOMAIN calls : i < j /\ calls[i] = "validate" /\ calls[j] = "write"

\* C1, amended: write() is called only after setrun() has returned without
\* raising, that is with claw_pkg.lower() == 'geoclaw' and a rundata that has
\* geodata, and on the configuration exactly as setrun() left it; the
\* calls on the configuration are ClawRunData, setgeo, write and no other
\* (no validate); a run in which setrun() raises ends without write().
C1_WriteOnlyAfterSetrunReturns ==
    /\ written.called =>
          /\ exc = "none"
          /\ lower(claw_pkg) = "geoclaw"
          /\ "geodata" \in rundata
          /\ calls = <<"ClawRunData", "setgeo", "write">>
          /\ written.clawdata = clawdata
          /\ written.geodata = geodata
          /\ Has(clawdata, "ibuff") /\ Has(geodata, "richardson_tolerance")
    /\ exc # "none" => pc = 0 /\ ~written.called /\ "write" \notin {calls[i] : i \in DOMAIN calls}
    /\ (pc = 0 /\ exc = "none") => written.called

\* A run started as `setrun.py GeoClaw` has called write().
C1_Witness == written.called /\ argv = <<"GeoClaw">>

----------------------------------------------------------------------------
(* C2 *)

GaugeAppendStep ==
    pc \in GaugeLines =>
        /\ geodata'["gauges"] =
               Append(geodata["gauges"],
                      <<locals["gaugeno"], locals["x"], locals["y"], 0, F1e10>>)
        /\ OthersKept(geodata, geodata', "gauges")
        /\ exc' = "none"
        /\ pc' = Succ(pc)

----------------------------------------------------------------------------
(* C5 *)

RatioLines == {213, 214, 216}

LevelsStep ==
    /\ pc = 210 =>
          /\ Has(clawdata', "mxnest")
          /\ clawdata'["mxnest"] = -locals["mxnest"]
          /\ exc' = "none" /\ pc' = Succ(pc)
    /\ pc \in RatioLines =>
          /\ Has(clawdata', Literal[pc][2])
          /\ clawdata'[Literal[pc][2]] \in AllValues(pc)
          /\ OthersKept(clawdata, clawdata', Literal[pc][2])
          /\ exc' = "none" /\ pc' = Succ(pc)

----------------------------------------------------------------------------
(* C6 *)

----------------------------------------------------------------------------
(* C7 *)

LiteralAppendLines == DOMAIN AppendLiteral

\* C7, as stated: an append either adds a record whose fields are in
\* order at the end of its list, or fails with a ValidationError and leaves
\* the list as it was.
CheckedAppendStep ==
    pc \in LiteralAppendLines =>
        LET list == AppendLiteral[pc][1] IN
        \/ /\ GrewByOne(geodata[list], geodata'[list])
           /\ ValidRecord(list, geodata'[list][Len(geodata'[list])])
           /\ exc' = "none"
        \/ /\ geodata'[list] = geodata[list]
           /\ exc' = "ValidationError"

UncheckedAppendStep ==
    pc \in LiteralAppendLines =>
        LET list == AppendLiteral[pc][1] IN
        /\ GrewByOne(geodata[list], geodata'[list])
        /\ geodata'[list][Len(geodata'[list])] \in AllValues(pc)
        /\ OthersKept(geodata, geodata', list)
        /\ exc' = "none"
        /\ pc' = Succ(pc)

----------------------------------------------------------------------------
(* C10 *)

\* C10: when write() is called on the configuration of the shipped script,
\* len(mthlim) == mwaves; mxnest is -4 and inratx, inraty, inratt have
\* |mxnest| - 1 entries; the gauge numbers are 1..9 and 101..109, eighteen
\* and pairwise distinct; every region has min-level <= max-level <=
\* |mxnest|, t1 < t2, x1 < x2, y1 < y2 and lies in the domain.
C10_ShippedConfigurationConsistent ==
    AtWrite =>
        LET g == geodata["gauges"]
            n == Abs(clawdata["mxnest"])
        IN
        /\ Len(clawdata["mthlim"]) = clawdata["mwaves"]
        /\ clawdata["mxnest"] < 0 /\ n = 4
        /\ Len(clawdata["inratx"]) = n - 1
        /\ Len(clawdata["inraty"]) = n - 1
        /\ Len(clawdata["inratt"]) = n - 1
        /\ Len(g) = 18
        /\ {g[i][1] : i \in DOMAIN g} = (1..9) \cup (101..109)
        /\ ~DuplicateIds(g)
        /\ \A i \in DOMAIN geodata["regions"] :
              LET r == geodata["regions"][i] IN
              /\ r[1] <= r[2] /\ r[2] <= n
              /\ r[3] < r[4]
              /\ r[5] < r[6] /\ r[7] < r[8]
              /\ clawdata["xlower"] <= r[5] /\ r[6] <= clawdata["xupper"]
              /\ clawdata["ylower"] <= r[7] /\ r[8] <= clawdata["yupper"]

\* write() is about to be called on the shipped configuration, its six
\* regions and eighteen gauges in place.
C10_Witness ==
    /\ pc = 355
    /\ edits = 0
    /\ Len(geodata["regions"]) = 6
    /\ Len(geodata["gauges"]) = 18

====
